---- MODULE Spec2Model ----
(***************************************************************************)
(* Model of the Heston Monte Carlo pricing engine (models/heston.rs) and   *)
(* of the interest-rate curve lookup (utils/interpolation.rs).             *)
(*                                                                         *)
(* f64 values are modelled as a small float format: finite values are     *)
(* fixed-point integers (value * SCALE, rounded to nearest after every     *)
(* operation), with the three special values NaN, PosInf and NegInf and    *)
(* overflow to an infinity beyond MaxFinite.  Comparisons with NaN are     *)
(* false, as in IEEE 754.                                                   *)
(***************************************************************************)
EXTENDS Integers, Sequences, FiniteSets, TLC

VARIABLES
    curve, q_time, q_result, q_interval,
    self, pc, paths, path, spot, variance, step,
    option_values, regression_data, regression_model, result,
    visited, fit_calls, last_call, floored

vars == <<curve, q_time, q_result, q_interval,
          self, pc, paths, path, spot, variance, step,
          option_values, regression_data, regression_model, result,
          visited, fit_calls, last_call, floored>>

rate_vars == <<curve, q_time, q_result, q_interval>>

price_vars == <<self, pc, paths, path, spot, variance, step,
                option_values, regression_data, regression_model, result,
                visited, fit_calls, last_call, floored>>

(***************************************************************************)
(* f64                                                                     *)
(***************************************************************************)
SCALE == 1000
MaxFinite == 1000000
NaN == 2000000001
PosInf == 2000000000
NegInf == -2000000000

IsNaN(x) == x = NaN
IsInf(x) == x = PosInf \/ x = NegInf
IsFinite(x) == ~IsNaN(x) /\ ~IsInf(x)

Abs(n) == IF n < 0 THEN -n ELSE n
Sign(x) == IF x = PosInf THEN 1 ELSE IF x = NegInf THEN -1
           ELSE IF x > 0 THEN 1 ELSE IF x < 0 THEN -1 ELSE 0
SignedInf(s) == IF s < 0 THEN NegInf ELSE PosInf

\* p / d rounded to the nearest integer (d > 0), ties away from zero
RoundDiv(p, d) == IF p >= 0 THEN (p + d \div 2) \div d
                  ELSE -((-p + d \div 2) \div d)

\* a finite result, overflowing to an infinity beyond the finite range
Finite(n) == IF n > MaxFinite THEN PosInf
             ELSE IF n < -MaxFinite THEN NegInf ELSE n

\* the literal n/d and the conversion `n as f64`
Lit(n, d) == RoundDiv(n * SCALE, d)
FromUsize(n) == n * SCALE

FNeg(x) == IF IsNaN(x) THEN NaN
           ELSE IF x = PosInf THEN NegInf
           ELSE IF x = NegInf THEN PosInf ELSE -x

FAdd(a, b) ==
    IF IsNaN(a) \/ IsNaN(b) THEN NaN
    ELSE IF IsInf(a) /\ IsInf(b) THEN (IF a = b THEN a ELSE NaN)
    ELSE IF IsInf(a) THEN a
    ELSE IF IsInf(b) THEN b
    ELSE Finite(a + b)

FSub(a, b) == FAdd(a, FNeg(b))

FMul(a, b) ==
    IF IsNaN(a) \/ IsNaN(b) THEN NaN
    ELSE IF IsInf(a) \/ IsInf(b)
         THEN (IF Sign(a) * Sign(b) = 0 THEN NaN ELSE SignedInf(Sign(a) * Sign(b)))
    ELSE IF a = 0 \/ b = 0 THEN 0
    ELSE IF Abs(b) > (MaxFinite * SCALE) \div Abs(a)
         THEN SignedInf(Sign(a) * Sign(b))
    ELSE Finite(RoundDiv(a * b, SCALE))

\* every zero divisor of the program is a positive zero
FDiv(a, b) ==
    IF IsNaN(a) \/ IsNaN(b) THEN NaN
    ELSE IF IsInf(a) /\ IsInf(b) THEN NaN
    ELSE IF IsInf(b) THEN 0
    ELSE IF IsInf(a) THEN SignedInf(Sign(a) * (IF b < 0 THEN -1 ELSE 1))
    ELSE IF b = 0 THEN (IF a = 0 THEN NaN ELSE SignedInf(Sign(a)))
    ELSE IF Abs(a) > MaxFinite THEN SignedInf(Sign(a) * Sign(b))
    ELSE Finite(Sign(b) * RoundDiv(a * SCALE, Abs(b)))

FLe(a, b) ==
    IF IsNaN(a) \/ IsNaN(b) THEN FALSE
    ELSE IF a = NegInf \/ b = PosInf THEN TRUE
    ELSE IF a = PosInf \/ b = NegInf THEN FALSE
    ELSE a <= b

FGe(a, b) == FLe(b, a)
FGt(a, b) == ~IsNaN(a) /\ ~IsNaN(b) /\ ~FLe(a, b)

\* f64::max: a NaN operand is ignored
FMax(a, b) == IF IsNaN(a) THEN b ELSE IF IsNaN(b) THEN a
              ELSE IF FGe(a, b) THEN a ELSE b

RECURSIVE ISqrt(_, _, _)
\* the largest r in lo..hi with r * r <= n
ISqrt(n, lo, hi) ==
    IF lo >= hi THEN lo
    ELSE LET mid == (lo + hi + 1) \div 2
         IN IF mid * mid <= n THEN ISqrt(n, mid, hi) ELSE ISqrt(n, lo, mid - 1)

FSqrt(x) ==
    IF IsNaN(x) THEN NaN
    ELSE IF x = PosInf THEN PosInf
    ELSE IF x < 0 THEN NaN
    ELSE LET n == x * SCALE
             r == ISqrt(n, 0, 32000)
         IN IF n - r * r > r THEN r + 1 ELSE r

RECURSIVE ExpSeries(_, _, _, _)
\* sum of the terms x^k / k! from the k-th term on, for 0 <= x <= 1
ExpSeries(x, term, k, acc) ==
    IF term = 0 \/ k > 12 THEN acc
    ELSE LET next == RoundDiv(term * x, k * SCALE)
         IN ExpSeries(x, next, k + 1, acc + next)

RECURSIVE ExpPos(_)
\* exp of a finite x >= 0
ExpPos(x) ==
    IF x <= SCALE THEN ExpSeries(x, SCALE, 1, SCALE)
    ELSE LET h == ExpPos(x \div 2)
             g == ExpPos(x - x \div 2)
         IN FMul(h, g)

FExp(x) ==
    IF IsNaN(x) THEN NaN
    ELSE IF x = PosInf THEN PosInf
    ELSE IF x = NegInf THEN 0
    ELSE IF x >= 0 THEN ExpPos(x)
    ELSE FDiv(SCALE, ExpPos(-x))

\* f64::powi for the exponents 0, 1, 2
FPowi(s, j) == IF j = 0 THEN SCALE
               ELSE IF j = 1 THEN s
               ELSE FMul(s, s)

(***************************************************************************)
(* errors.rs, Result<f64, OptionPricingError>                              *)
(***************************************************************************)
NoValue == 0
Ok(v) == [ok |-> TRUE, val |-> v, err |-> "None"]
Err(e) == [ok |-> FALSE, val |-> NoValue, err |-> e]
Pending == [ok |-> FALSE, val |-> NoValue, err |-> "Pending"]

(***************************************************************************)
(* data/interest_rates.rs, utils/interpolation.rs                          *)
(***************************************************************************)
InterestRateCurve_new(times, rates) == [times |-> times, rates |-> rates]

\* mutant: the rate of the left knot, no interpolation
Interpolated_LeftRate(times, rates, i, time) == rates[i]

\* r0 + (r1 - r0) * (time - t0) / (t1 - t0) on the interval starting at knot i
Interpolated(times, rates, i, time) ==
    LET t0 == times[i]
        t1 == times[i + 1]
        r0 == rates[i]
        r1 == rates[i + 1]
    IN FAdd(r0, FDiv(FMul(FSub(r1, r0), FSub(time, t0)), FSub(t1, t0)))

\* mutant: the loop stops one interval early
LastInterval_OneShort(times) == Len(times) - 2

\* the last interval the bracketing loop inspects (1-based: 1 .. len - 1)
LastInterval(times) == Len(times) - 1

RECURSIVE BracketIndex(_, _, _)
\* the (1-based) interval the loop `for i in 0..times.len() - 1` selects from
\* interval i on: the first with times[i] <= time <= times[i + 1]; 0 when the
\* loop ends without one
BracketIndex(times, i, time) ==
    IF i > LastInterval(times) THEN 0
    ELSE IF FGe(time, times[i]) /\ FLe(time, times[i + 1]) THEN i
    ELSE BracketIndex(times, i + 1, time)

\* the bracketing loop and the fallback after it
BracketLoop(times, rates, i, time) ==
    LET k == BracketIndex(times, i, time)
    IN IF k = 0 THEN Err("InterpolationError")
       ELSE Ok(Interpolated(times, rates, k, time))

\* mutant: a time equal to the first knot is not clamped
ClampsFirst_Strict(times, time) == FGt(times[1], time)

\* if time <= times[0]
ClampsFirst(times, time) == FLe(time, times[1])

\* if time >= times[times.len() - 1]
ClampsLast(times, time) == FGe(time, times[Len(times)])

interpolate_rate(c, time) ==
    LET times == c.times
        rates == c.rates
    IN IF Len(times) = 0 \/ Len(rates) = 0 \/ Len(times) # Len(rates)
       THEN Err("InvalidInput")
       ELSE IF ClampsFirst(times, time)
            THEN Ok(rates[1])
            ELSE IF ClampsLast(times, time)
                 THEN Ok(rates[Len(rates)])
                 ELSE BracketLoop(times, rates, 1, time)

\* the interval whose knots interpolate_rate divides by (t1 - t0) for; 0 when
\* it returns before or without interpolating
SelectedInterval(c, time) ==
    LET times == c.times
        rates == c.rates
    IN IF Len(times) = 0 \/ Len(rates) = 0 \/ Len(times) # Len(rates) THEN 0
       ELSE IF ClampsFirst(times, time) THEN 0
       ELSE IF ClampsLast(times, time) THEN 0
       ELSE BracketIndex(times, 1, time)

(***************************************************************************)
(* The curve lookup on its own: a curve is constructed, then queried.      *)
(***************************************************************************)
MaxKnots == 3

SeqsUpTo(S, n) == UNION {[1..k -> S] : k \in 0..n}

KnotTimes == {0, Lit(1, 1), Lit(2, 1), NaN, PosInf}
KnotRates == {Lit(1, 100), Lit(5, 100)}
QueryTimes == {Lit(-1, 1), 0, Lit(1, 3), Lit(1, 1), Lit(3, 2), Lit(2, 1),
               Lit(3, 1), NaN, PosInf}

NoCurve == InterestRateCurve_new(<<>>, <<>>)
NoModel == [kind |-> "None", coefficients |-> <<>>, leaf |-> 0, predict_ok |-> FALSE]
NoSelf == [option_type |-> "Call", spot_price |-> 0, strike_price |-> 0,
           time_to_expiry |-> 0, initial_variance |-> 0,
           risk_free_rate_curve |-> NoCurve,
           kappa |-> 0, theta |-> 0, sigma |-> 0, rho |-> 0,
           is_american |-> FALSE, regression_method |-> "LeastSquaresMonteCarlo",
           num_paths |-> 0, num_steps |-> 0]

PriceIdle ==
    /\ self = NoSelf
    /\ pc = "idle"
    /\ paths = <<>>
    /\ path = <<>>
    /\ spot = 0
    /\ variance = 0
    /\ step = 0
    /\ option_values = <<>>
    /\ regression_data = <<>>
    /\ regression_model = NoModel
    /\ result = Pending
    /\ visited = <<>>
    /\ fit_calls = 0
    /\ last_call = Pending
    /\ floored = FALSE

InitRate ==
    /\ \E times \in SeqsUpTo(KnotTimes, MaxKnots), rates \in SeqsUpTo(KnotRates, MaxKnots) :
           curve = InterestRateCurve_new(times, rates)
    /\ q_time = 0
    /\ q_result = Pending
    /\ q_interval = 0
    /\ PriceIdle

QueryRate ==
    /\ \E time \in QueryTimes :
           /\ q_time' = time
           /\ q_result' = interpolate_rate(curve, time)
           /\ q_interval' = SelectedInterval(curve, time)
    /\ UNCHANGED curve
    /\ UNCHANGED price_vars

NextRate == QueryRate

SpecRate == InitRate /\ [][NextRate]_vars

(***************************************************************************)
(* models/heston.rs: HestonModel::price as a state machine.                *)
(*   pc = "simulate"  between two paths of the simulation loop             *)
(*        "step"      inside one path                                      *)
(*        "collect", "fit", "update"   one backward-induction step         *)
(*        "discount"  after the backward-induction loop                    *)
(*        "done"      price has returned `result`                          *)
(* visited, fit_calls, last_call and floored record what has happened:     *)
(* the exercise steps entered, the number of calls of fit, the Result of   *)
(* the latest fallible call, and whether the variance floor has acted.     *)
(***************************************************************************)
MaxSteps == 3
MaxPaths == 2
MaxCells == 6

\* the pairs (z1, z2) the two StandardNormal samples of one step are drawn from
Draws == {<<Lit(1, 1), Lit(-1, 1)>>, <<Lit(-1, 1), Lit(1, 1)>>, <<0, 0>>}

GoodCurve == InterestRateCurve_new(<<0, Lit(1, 2), Lit(1, 1)>>,
                                   <<Lit(5, 100), Lit(3, 100), Lit(4, 100)>>)
MismatchedCurve == InterestRateCurve_new(<<0, Lit(1, 1)>>, <<Lit(5, 100)>>)
NaNKnotCurve == InterestRateCurve_new(<<NaN, Lit(1, 1)>>, <<Lit(5, 100), Lit(5, 100)>>)
Curves == {GoodCurve, MismatchedCurve, NaNKnotCurve}

\* (initial_variance, sigma): vol-of-vol large enough for the floor to act,
\* and a negative initial variance
VarianceInputs == {<<Lit(4, 100), Lit(1, 1)>>, <<Lit(-4, 100), Lit(1, 10)>>}

\* (num_paths, num_steps) with at most MaxCells simulated steps in all
Sizes == {sz \in (0..MaxPaths) \X (0..MaxSteps) : sz[1] * sz[2] <= MaxCells}

HestonModels ==
    {[option_type |-> ot, spot_price |-> Lit(10, 1), strike_price |-> Lit(10, 1),
      time_to_expiry |-> tte, initial_variance |-> vi[1],
      risk_free_rate_curve |-> c,
      kappa |-> Lit(2, 1), theta |-> Lit(4, 100), sigma |-> vi[2],
      rho |-> Lit(-7, 10),
      is_american |-> am, regression_method |-> rm,
      num_paths |-> sz[1], num_steps |-> sz[2]] :
        ot \in {"Call", "Put"}, tte \in {Lit(1, 1), NaN}, vi \in VarianceInputs,
        c \in Curves, am \in BOOLEAN,
        rm \in {"LeastSquaresMonteCarlo", "RandomForest"},
        sz \in Sizes}

dt == FDiv(self.time_to_expiry, FromUsize(self.num_steps))
sqrt_dt == FSqrt(dt)

\* (spot - strike).max(0.0) for a call, (strike - spot).max(0.0) for a put
Payoff(option_type, s, strike) ==
    IF option_type = "Call" THEN FMax(FSub(s, strike), 0)
    ELSE FMax(FSub(strike, s), 0)

\* paths[i][k].1 with 0-based k
SpotAt(i, k) == paths[i][k + 1][2]

immediate_exercise_value(i, k) ==
    Payoff(self.option_type, SpotAt(i, k), self.strike_price)

\* w2 = rho * z1 + sqrt(1 - rho^2) * z2
Correlate(rho, z1, z2) ==
    FAdd(FMul(rho, z1), FMul(FSqrt(FSub(Lit(1, 1), FPowi(rho, 2))), z2))

\* variance + kappa * (theta - variance) * dt + sigma * sqrt(variance) * w2 * sqrt_dt
VarianceDrift(v, w2) ==
    FAdd(FAdd(v, FMul(FMul(self.kappa, FSub(self.theta, v)), dt)),
         FMul(FMul(FMul(self.sigma, FSqrt(v)), w2), sqrt_dt))

\* mutant: the variance update without its floor
VarianceUpdate_NoFloor(v, w2) == VarianceDrift(v, w2)

\* the variance update, floored with .max(0.0)
VarianceUpdate(v, w2) == FMax(VarianceDrift(v, w2), 0)

\* spot * exp((rate - 0.5 * variance) * dt + sqrt(variance) * w1 * sqrt_dt)
SpotUpdate(s, v, rate, w1) ==
    FMul(s, FExp(FAdd(FMul(FSub(rate, FMul(Lit(1, 2), v)), dt),
                      FMul(FMul(FSqrt(v), w1), sqrt_dt))))

\* value * exp(-rate * period)
Discounted(value, rate, period) == FMul(value, FExp(FMul(FNeg(rate), period)))

RECURSIVE SumSeq(_, _)
\* iter().sum() and the `+=` accumulation, left to right from 0.0
SumSeq(seq, n) == IF n = 0 THEN 0 ELSE FAdd(SumSeq(seq, n - 1), seq[n])

\* price returns r: the error of a failed call is propagated by `?`
Return(r) ==
    /\ pc' = "done"
    /\ result' = r

Init ==
    /\ self \in HestonModels
    /\ pc = "simulate"
    /\ paths = <<>>
    /\ path = <<>>
    /\ spot = 0
    /\ variance = 0
    /\ step = 0
    /\ option_values = <<>>
    /\ regression_data = <<>>
    /\ regression_model = NoModel
    /\ result = Pending
    /\ visited = <<>>
    /\ fit_calls = 0
    /\ last_call = Pending
    /\ floored = FALSE
    /\ curve = NoCurve
    /\ q_time = 0
    /\ q_result = Pending
    /\ q_interval = 0

\* for _ in 0..num_paths: a new path starts at (0.0, spot_price)
BeginPath ==
    /\ pc = "simulate"
    /\ Len(paths) < self.num_paths
    /\ spot' = self.spot_price
    /\ variance' = self.initial_variance
    /\ path' = << <<0, self.spot_price>> >>
    /\ step' = 0
    /\ floored' = FALSE
    /\ pc' = "step"
    /\ UNCHANGED <<self, paths, option_values, regression_data, regression_model,
                   result, visited, fit_calls, last_call>>
    /\ UNCHANGED rate_vars

\* for step in 0..num_steps: one Euler step of variance and spot
SimulateStep ==
    /\ pc = "step"
    /\ step < self.num_steps
    /\ \E z \in Draws :
        LET w1 == z[1]
            w2 == Correlate(self.rho, z[1], z[2])
            raw == VarianceDrift(variance, w2)
            v == VarianceUpdate(variance, w2)
            time == FMul(FAdd(FromUsize(step), Lit(1, 1)), dt)
            rate == interpolate_rate(self.risk_free_rate_curve, time)
            s == SpotUpdate(spot, v, rate.val, w1)
        IN /\ variance' = v
           /\ floored' = (IsNaN(raw) \/ FGt(0, raw))
           /\ last_call' = rate
           /\ IF rate.ok
              THEN /\ spot' = s
                   /\ path' = Append(path, <<time, s>>)
                   /\ step' = step + 1
                   /\ UNCHANGED <<pc, result>>
              ELSE /\ Return(rate)
                   /\ UNCHANGED <<spot, path, step>>
    /\ UNCHANGED <<self, paths, option_values, regression_data, regression_model,
                   visited, fit_calls>>
    /\ UNCHANGED rate_vars

\* paths.push(path)
PushPath ==
    /\ pc = "step"
    /\ step = self.num_steps
    /\ paths' = Append(paths, path)
    /\ pc' = "simulate"
    /\ UNCHANGED <<self, path, spot, variance, step, option_values, regression_data,
                   regression_model, result, visited, fit_calls, last_call, floored>>
    /\ UNCHANGED rate_vars

\* the terminal payoff of every path
TerminalPayoffs ==
    [i \in 1..self.num_paths |-> immediate_exercise_value(i, self.num_steps)]

\* mutant: the average is discounted over one step only
EuropeanDiscount_OneStep(average_payoff, rate) == Discounted(average_payoff, rate, dt)

\* average_payoff * (-rate * time_to_expiry).exp()
EuropeanDiscount(average_payoff, rate) ==
    Discounted(average_payoff, rate, self.time_to_expiry)

\* if !is_american: the discounted average of the terminal payoffs
PriceEuropean ==
    /\ pc = "simulate"
    /\ Len(paths) = self.num_paths
    /\ ~self.is_american
    /\ LET payoffs == TerminalPayoffs
           average_payoff == FDiv(SumSeq(payoffs, self.num_paths),
                                  FromUsize(self.num_paths))
           rate == interpolate_rate(self.risk_free_rate_curve, self.time_to_expiry)
       IN /\ last_call' = rate
          /\ IF rate.ok
             THEN Return(Ok(EuropeanDiscount(average_payoff, rate.val)))
             ELSE Return(rate)
    /\ UNCHANGED <<self, paths, path, spot, variance, step, option_values,
                   regression_data, regression_model, visited, fit_calls, floored>>
    /\ UNCHANGED rate_vars

(***************************************************************************)
(* regression/mod.rs, lsm.rs, random_forest.rs.  The numerical solvers     *)
(* (ndarray-linalg least squares, smartcore random forest) are libraries:  *)
(* a call of fit either fails or returns one of a few fitted models.       *)
(***************************************************************************)
RegressionDataPoint(time, asset_price, continuation_value) ==
    [time |-> time, asset_price |-> asset_price,
     continuation_value |-> continuation_value]

\* coefficient vectors (c0, c1, c2) a least-squares solve may return
Coefficients == {<<Lit(-10, 1), Lit(1, 1), 0>>, <<Lit(11, 1), Lit(-1, 1), 0>>}
\* values a fitted forest may predict
Leaves == {Lit(1, 2)}

FitError == [ok |-> FALSE, model |-> NoModel]

LeastSquaresMonteCarlo_fit(data) ==
    {FitError} \cup
    {[ok |-> TRUE,
      model |-> [kind |-> "LSMModel", coefficients |-> c, leaf |-> 0,
                 predict_ok |-> TRUE]] : c \in Coefficients}

RandomForestRegression_fit(data) ==
    {FitError} \cup
    {[ok |-> TRUE,
      model |-> [kind |-> "RandomForestModel", coefficients |-> <<>>, leaf |-> v,
                 predict_ok |-> b]] : v \in Leaves, b \in BOOLEAN}

\* regression.fit(&regression_data) through the Rc<dyn Regression>
fit(method, data) ==
    IF method = "LeastSquaresMonteCarlo" THEN LeastSquaresMonteCarlo_fit(data)
    ELSE RandomForestRegression_fit(data)

\* value += coeff * s.powi(i), from 0.0
LSMModel_predict(model, s) ==
    FAdd(FAdd(FAdd(0, FMul(model.coefficients[1], FPowi(s, 0))),
              FMul(model.coefficients[2], FPowi(s, 1))),
         FMul(model.coefficients[3], FPowi(s, 2)))

\* predictions[0], or 0.0 when the forest's predict fails
RandomForestModel_predict(model, s) == IF model.predict_ok THEN model.leaf ELSE 0

predict(model, s) ==
    IF model.kind = "LSMModel" THEN LSMModel_predict(model, s)
    ELSE RandomForestModel_predict(model, s)

(***************************************************************************)
(* models/heston.rs: American valuation by backward induction              *)
(***************************************************************************)
\* mutant: the loop starts at the terminal step
FirstExerciseStep_Terminal(n) == n

\* (1..num_steps).rev() starts at num_steps - 1 ...
FirstExerciseStep(n) == n - 1

\* ... and ends at 1
InExerciseRange(k) == k >= 1

\* where the loop goes when its next index is k
LoopAt(k) == IF InExerciseRange(k) THEN "collect" ELSE "discount"

\* let regression = ...; option_values = the terminal payoffs
InitOptionValues ==
    /\ pc = "simulate"
    /\ Len(paths) = self.num_paths
    /\ self.is_american
    /\ option_values' = TerminalPayoffs
    /\ step' = FirstExerciseStep(self.num_steps)
    /\ pc' = LoopAt(FirstExerciseStep(self.num_steps))
    /\ UNCHANGED <<self, paths, path, spot, variance, regression_data,
                   regression_model, result, visited, fit_calls, last_call, floored>>
    /\ UNCHANGED rate_vars

\* mutant: paths at the money enter the regression too
EntersRegression_AtTheMoney(i, k) == FGe(immediate_exercise_value(i, k), 0)

\* if immediate_exercise_value > 0.0 (data collection)
EntersRegression(i, k) == FGt(immediate_exercise_value(i, k), 0)

RECURSIVE CollectData(_, _, _, _)
\* the data points of paths 1..n at step k, in path order
CollectData(n, k, time, rate) ==
    IF n = 0 THEN <<>>
    ELSE LET rest == CollectData(n - 1, k, time, rate)
         IN IF EntersRegression(n, k)
            THEN Append(rest,
                        RegressionDataPoint(time, SpotAt(n, k),
                                            Discounted(option_values[n], rate, dt)))
            ELSE rest

\* mutant: a step without in-the-money paths discounts every value
SkipStep_Discounting(rate) ==
    [i \in 1..self.num_paths |-> Discounted(option_values[i], rate, dt)]

\* if regression_data.is_empty() { continue; }: the values are not touched
SkipStep(rate) == option_values

\* one pass of the data-collection loop of a backward-induction step
CollectRegressionData ==
    /\ pc = "collect"
    /\ LET time == FMul(FromUsize(step), dt)
           rate == interpolate_rate(self.risk_free_rate_curve, time)
           looked_up == \E i \in 1..self.num_paths : EntersRegression(i, step)
           data == CollectData(self.num_paths, step, time, rate.val)
       IN /\ visited' = Append(visited, step)
          /\ last_call' = IF looked_up THEN rate ELSE last_call
          /\ IF looked_up /\ ~rate.ok
             THEN /\ Return(rate)
                  /\ UNCHANGED <<regression_data, option_values, step>>
             ELSE /\ regression_data' = data
                  /\ UNCHANGED result
                  /\ IF data = <<>>
                     THEN /\ option_values' = SkipStep(rate.val)
                          /\ step' = step - 1
                          /\ pc' = LoopAt(step - 1)
                     ELSE /\ pc' = "fit"
                          /\ UNCHANGED <<option_values, step>>
    /\ UNCHANGED <<self, paths, path, spot, variance, regression_model,
                   fit_calls, floored>>
    /\ UNCHANGED rate_vars

\* mutant: a failed fit is replaced by a model predicting 0.0
FitRegression_Swallow ==
    /\ pc = "fit"
    /\ \E outcome \in fit(self.regression_method, regression_data) :
           /\ fit_calls' = fit_calls + 1
           /\ last_call' = IF outcome.ok THEN Ok(NoValue) ELSE Err("RegressionError")
           /\ regression_model' = outcome.model
           /\ pc' = "update"
           /\ UNCHANGED result
    /\ UNCHANGED <<self, paths, path, spot, variance, step, option_values,
                   regression_data, visited, floored>>
    /\ UNCHANGED rate_vars

\* let regression_model = regression.fit(&regression_data)?;
FitRegression ==
    /\ pc = "fit"
    /\ \E outcome \in fit(self.regression_method, regression_data) :
           /\ fit_calls' = fit_calls + 1
           /\ last_call' = IF outcome.ok THEN Ok(NoValue) ELSE Err("RegressionError")
           /\ IF outcome.ok
              THEN /\ regression_model' = outcome.model
                   /\ pc' = "update"
                   /\ UNCHANGED result
              ELSE /\ Return(Err("RegressionError"))
                   /\ UNCHANGED regression_model
    /\ UNCHANGED <<self, paths, path, spot, variance, step, option_values,
                   regression_data, visited, floored>>
    /\ UNCHANGED rate_vars

\* mutant: a tie between exercise and continuation continues
UpdatedValue_StrictExercise(i, k, rate, model) ==
    LET immediate == immediate_exercise_value(i, k)
        discounted_value == Discounted(option_values[i], rate, dt)
    IN IF FGt(immediate, 0)
       THEN IF FGt(immediate, predict(model, SpotAt(i, k)))
            THEN immediate
            ELSE discounted_value
       ELSE discounted_value

\* the new option_values[i] of the update loop
UpdatedValue(i, k, rate, model) ==
    LET immediate == immediate_exercise_value(i, k)
        discounted_value == Discounted(option_values[i], rate, dt)
    IN IF FGt(immediate, 0)
       THEN IF FGe(immediate, predict(model, SpotAt(i, k)))
            THEN immediate
            ELSE discounted_value
       ELSE discounted_value

\* the update loop of a backward-induction step
UpdateOptionValues ==
    /\ pc = "update"
    /\ LET time == FMul(FromUsize(step), dt)
           rate == interpolate_rate(self.risk_free_rate_curve, time)
       IN /\ last_call' = IF self.num_paths > 0 THEN rate ELSE last_call
          /\ IF self.num_paths > 0 /\ ~rate.ok
             THEN /\ Return(rate)
                  /\ UNCHANGED <<option_values, step>>
             ELSE /\ option_values' =
                         [i \in 1..self.num_paths |->
                             UpdatedValue(i, step, rate.val, regression_model)]
                  /\ step' = step - 1
                  /\ pc' = LoopAt(step - 1)
                  /\ UNCHANGED result
    /\ UNCHANGED <<self, paths, path, spot, variance, regression_data,
                   regression_model, visited, fit_calls, floored>>
    /\ UNCHANGED rate_vars

\* option_values[i] * (-rate * dt).exp()
PresentValue(value, rate) == Discounted(value, rate, dt)

\* the final loop: the mean of the values discounted by one step at rate(0.0)
DiscountToPresent ==
    /\ pc = "discount"
    /\ LET rate == interpolate_rate(self.risk_free_rate_curve, 0)
           present == [i \in 1..self.num_paths |-> PresentValue(option_values[i], rate.val)]
           price == FDiv(SumSeq(present, self.num_paths), FromUsize(self.num_paths))
       IN /\ last_call' = IF self.num_paths > 0 THEN rate ELSE last_call
          /\ IF self.num_paths > 0 /\ ~rate.ok
             THEN Return(rate)
             ELSE Return(Ok(price))
    /\ UNCHANGED <<self, paths, path, spot, variance, step, option_values,
                   regression_data, regression_model, visited, fit_calls, floored>>
    /\ UNCHANGED rate_vars

Next ==
    \/ BeginPath
    \/ SimulateStep
    \/ PushPath
    \/ PriceEuropean
    \/ InitOptionValues
    \/ CollectRegressionData
    \/ FitRegression
    \/ UpdateOptionValues
    \/ DiscountToPresent

Spec == Init /\ [][Next]_vars

(***************************************************************************)
(* Claims about the curve lookup (checked under SpecRate)                  *)
(***************************************************************************)
Queried == q_result # Pending
Malformed(c) == Len(c.times) = 0 \/ Len(c.rates) = 0 \/ Len(c.times) # Len(c.rates)
Knots(c) == 1..Len(c.times)
Intervals(c) == 1..(Len(c.times) - 1)
HasNaNKnot(c) == \E k \in Knots(c) : IsNaN(c.times[k])
AtOrBeforeFirst(c, t) == FLe(t, c.times[1])
AtOrAfterLast(c, t) == FGe(t, c.times[Len(c.times)])
Brackets(c, i, t) == FLe(c.times[i], t) /\ FLe(t, c.times[i + 1])
Linear(c, i, t) ==
    FAdd(c.rates[i],
         FDiv(FMul(FSub(c.rates[i + 1], c.rates[i]), FSub(t, c.times[i])),
              FSub(c.times[i + 1], c.times[i])))

\* C1 as stated: InvalidInput for a malformed curve, else the first rate at or
\* before the first knot, else the last rate at or after the last knot, else the
\* linear interpolation on a pair of adjacent knots that brackets the time.
C1_AsStated ==
    Queried =>
        IF Malformed(curve) THEN q_result = Err("InvalidInput")
        ELSE IF AtOrBeforeFirst(curve, q_time) THEN q_result = Ok(curve.rates[1])
        ELSE IF AtOrAfterLast(curve, q_time)
             THEN q_result = Ok(curve.rates[Len(curve.rates)])
        ELSE \E i \in Intervals(curve) :
                 /\ Brackets(curve, i, q_time)
                 /\ q_result = Ok(Linear(curve, i, q_time))

\* C1 amended: as C1, except that when no pair of adjacent knots brackets the
\* time (which needs a NaN query time or a NaN knot time) the lookup returns
\* an InterpolationError.
C1_InterpolateRate ==
    Queried =>
        IF Malformed(curve) THEN q_result = Err("InvalidInput")
        ELSE IF AtOrBeforeFirst(curve, q_time) THEN q_result = Ok(curve.rates[1])
        ELSE IF AtOrAfterLast(curve, q_time)
             THEN q_result = Ok(curve.rates[Len(curve.rates)])
        ELSE IF \E i \in Intervals(curve) : Brackets(curve, i, q_time)
             THEN \E i \in Intervals(curve) :
                      /\ Brackets(curve, i, q_time)
                      /\ q_result = Ok(Linear(curve, i, q_time))
             ELSE /\ q_result = Err("InterpolationError")
                  /\ IsNaN(q_time) \/ HasNaNKnot(curve)

\* an interior query answered by a rate strictly between the two knot rates
C1_Witness ==
    /\ Queried
    /\ ~Malformed(curve)
    /\ ~AtOrBeforeFirst(curve, q_time)
    /\ ~AtOrAfterLast(curve, q_time)
    /\ q_result.ok
    /\ \E i \in Intervals(curve) :
           /\ Brackets(curve, i, q_time)
           /\ q_result.val # curve.rates[i]
           /\ q_result.val # curve.rates[i + 1]

\* C2 as stated: on a curve with non-empty, equal-length times and rates every
\* query returns a rate.
C2_AsStated == (Queried /\ ~Malformed(curve)) => q_result.ok

\* C2 amended: on such a curve, when neither the query time nor any knot time
\* is NaN, every query returns a rate (the fallback is not reached).
C2_NeverFallsThrough ==
    (Queried /\ ~Malformed(curve) /\ ~IsNaN(q_time) /\ ~HasNaNKnot(curve))
        => q_result.ok

\* a query strictly inside a NaN-free curve of three knots, bracketed only by
\* the last interval, and answered
C2_Witness ==
    /\ Queried
    /\ ~Malformed(curve)
    /\ Len(curve.times) = 3
    /\ ~IsNaN(q_time) /\ ~HasNaNKnot(curve)
    /\ ~AtOrBeforeFirst(curve, q_time)
    /\ ~AtOrAfterLast(curve, q_time)
    /\ ~Brackets(curve, 1, q_time)
    /\ q_result.ok

NonDecreasing(c) ==
    \A k \in Intervals(c) : FLe(c.times[k], c.times[k + 1])

Paths == 1..self.num_paths
Returned == pc = "done"
Strike == self.strike_price
RateAt(t) == interpolate_rate(self.risk_free_rate_curve, t).val
StepTime(k) == FMul(FromUsize(k), dt)

\* max(S - K, 0) for a call, max(K - S, 0) for a put, at 0-based step k of path i
Exercise(i, k) ==
    LET s == paths[i][k + 1][2]
    IN IF self.option_type = "Call" THEN FMax(FSub(s, Strike), 0)
       ELSE FMax(FSub(Strike, s), 0)
ITM(i, k) == FGt(Exercise(i, k), 0)
ITMPaths(k) == {i \in Paths : ITM(i, k)}

\* v * exp(-rate(t) * period)
DiscountBy(v, t, period) == FMul(v, FExp(FMul(FNeg(RateAt(t)), period)))

RECURSIVE MeanSum(_, _)
MeanSum(f, n) == IF n = 0 THEN 0 ELSE FAdd(MeanSum(f, n - 1), f[n])
Mean(f) == FDiv(MeanSum(f, self.num_paths), FromUsize(self.num_paths))

\* C3 as stated: a pricing request with num_steps = 0 returns InvalidInput and
\* never a price.
C3_ZeroStepsRejected ==
    (Returned /\ self.num_steps = 0) => result = Err("InvalidInput")

\* C4: at an exercise step where no path has a strictly positive exercise value,
\* the value vector is left unchanged, no fit is performed and the engine goes
\* on to the previous step.
C4_EmptyStepLeavesValues ==
    [][(pc = "collect" /\ ITMPaths(step) = {}) =>
           /\ option_values' = option_values
           /\ fit_calls' = fit_calls
           /\ regression_model' = regression_model
           /\ result' = result
           /\ step' = step - 1
           /\ pc' = IF step - 1 >= 1 THEN "collect" ELSE "discount"]_vars

\* an exercise step with two paths, none in the money, has just been skipped
\* with a positive value on some path
C4_Witness ==
    /\ pc \in {"collect", "discount"}
    /\ self.num_paths = 2
    /\ visited # <<>>
    /\ visited[Len(visited)] = step + 1
    /\ ITMPaths(step + 1) = {}
    /\ \E i \in Paths : FGt(option_values[i], 0)

\* C5: the variance produced by every simulation step is >= 0.
C5_VarianceFloor ==
    [][(pc = "step" /\ step < self.num_steps) => FGe(variance', 0)]_vars

\* the floor has acted in a step (the unfloored value was negative or NaN)
C5_Witness ==
    /\ pc = "step"
    /\ step >= 1
    /\ floored
    /\ variance = 0

\* C6: once a rate lookup or a fit has returned an error, price has returned
\* that same error, and after price has returned nothing more happens.
C6_FailurePropagates ==
    /\ [](((last_call # Pending) /\ ~last_call.ok) =>
              (pc = "done" /\ result = last_call))
    /\ [][pc # "done"]_vars

\* the fit of the second visited exercise step failed and price returned it
C6_Witness ==
    /\ Returned
    /\ result = Err("RegressionError")
    /\ fit_calls = 2
    /\ last_call = Err("RegressionError")

\* C7: a European price never touches the regression or the backward
\* induction, and is the mean terminal payoff times exp(-rate(T) * T).
C7_EuropeanPrice ==
    ~self.is_american =>
        /\ fit_calls = 0
        /\ visited = <<>>
        /\ option_values = <<>>
        /\ regression_data = <<>>
        /\ regression_model = NoModel
        /\ pc \in {"simulate", "step", "done"}
        /\ (Returned /\ result.ok) =>
               result.val =
                   FMul(Mean([i \in Paths |-> Exercise(i, self.num_steps)]),
                        FExp(FMul(FNeg(RateAt(self.time_to_expiry)),
                                  self.time_to_expiry)))

\* a European price over two paths of at least two steps, positive and finite
C7_Witness ==
    /\ Returned
    /\ ~self.is_american
    /\ self.num_paths = 2
    /\ self.num_steps >= 2
    /\ result.ok
    /\ IsFinite(result.val)
    /\ result.val > 0

\* C8: in the update of an exercise step every path's value becomes its
\* exercise value when the path is in the money and that value is >= the
\* predicted continuation, and the one-step discounted value otherwise.
C8_UpdateRule ==
    [][pc = "update" =>
           /\ ITMPaths(step) # {}
           /\ \A i \in Paths :
                  option_values'[i] =
                      IF ITM(i, step)
                         /\ FGe(Exercise(i, step),
                                predict(regression_model, paths[i][step + 1][2]))
                      THEN Exercise(i, step)
                      ELSE DiscountBy(option_values[i], StepTime(step), dt)]_vars

\* just after an update: one path exercised on a tie with the prediction,
\* another path out of the money kept a positive discounted value
C8_Witness ==
    /\ pc \in {"collect", "discount"}
    /\ visited # <<>>
    /\ visited[Len(visited)] = step + 1
    /\ \E i \in ITMPaths(step + 1) :
           /\ Exercise(i, step + 1) = predict(regression_model, paths[i][step + 2][2])
           /\ option_values[i] = Exercise(i, step + 1)
    /\ \E j \in Paths \ ITMPaths(step + 1) : FGt(option_values[j], 0)

\* C9: the training set handed to fit holds exactly one data point for each
\* in-the-money path, in path order, none for any other path, and is not empty.
C9_TrainingSet ==
    pc = "fit" =>
        /\ regression_data # <<>>
        /\ Len(regression_data) = Cardinality(ITMPaths(step))
        /\ \E f \in [1..Len(regression_data) -> ITMPaths(step)] :
               /\ \A a, b \in 1..Len(regression_data) : a < b => f[a] < f[b]
               /\ \A a \in 1..Len(regression_data) :
                      regression_data[a] =
                          [time |-> StepTime(step),
                           asset_price |-> paths[f[a]][step + 1][2],
                           continuation_value |->
                               DiscountBy(option_values[f[a]], StepTime(step), dt)]

\* fit is about to be called with one of two paths in the training set
C9_Witness ==
    /\ pc = "fit"
    /\ self.num_paths = 2
    /\ Cardinality(ITMPaths(step)) = 1
    /\ Len(regression_data) = 1

\* C10: the exercise steps are visited in the order num_steps-1, ..., 1, each
\* once; the final discount runs only after the last of them; the price is
\* the mean of the values discounted once more by exp(-rate(0) * dt).
C10_ExerciseSteps ==
    self.is_american =>
        LET last == IF self.num_steps >= 1 THEN self.num_steps - 1 ELSE 0
        IN /\ \A k \in 1..Len(visited) :
                  visited[k] = self.num_steps - k /\ visited[k] >= 1
           /\ (pc = "discount" \/ (Returned /\ result.ok)) => Len(visited) = last
           /\ (Returned /\ result.ok) =>
                  result.val = Mean([i \in Paths |-> DiscountBy(option_values[i], 0, dt)])
           /\ (Returned /\ result.ok /\ self.num_steps = 1) =>
                  option_values = [i \in Paths |-> Exercise(i, self.num_steps)]

\* an American price over three steps: steps 2 and 1 visited, in that order
C10_Witness ==
    /\ Returned
    /\ self.is_american
    /\ self.num_steps = 3
    /\ self.num_paths = 2
    /\ visited = <<2, 1>>
    /\ result.ok
    /\ IsFinite(result.val)
    /\ result.val > 0

====
